---------------------------- MODULE Spec2Model ----------------------------
(***************************************************************************)
(* The address subsystem of rust-bitcoin (bitcoin/src/address/mod.rs):     *)
(* the Base58Check / Bech32 text codecs, the parsing dispatcher, the      *)
(* script bridge and the network-validation typestate of Address<V>.      *)
(*                                                                         *)
(* Strings are sequences of one-character strings, byte strings and       *)
(* scripts are sequences of integers in 0..255.                           *)
(***************************************************************************)
EXTENDS Integers, Sequences, FiniteSets, TLC

(***************************************************************************)
(* Bounds of the model.                                                    *)
(***************************************************************************)
\* number of distinct sample hashes / witness programs per shape
NumHashes == 2

(***************************************************************************)
(* Generic helpers on sequences, bytes and characters.                     *)
(***************************************************************************)
None == [none |-> TRUE]

SubSeqFrom(s, i) == SubSeq(s, i, Len(s))

\* str::starts_with
StartsWith(s, p) == Len(s) >= Len(p) /\ SubSeq(s, 1, Len(p)) = p

\* position of c in the table t (0 when absent)
IndexOf(t, c) ==
  IF \E i \in 1..Len(t) : t[i] = c THEN CHOOSE i \in 1..Len(t) : t[i] = c ELSE 0

LOWER == <<"a","b","c","d","e","f","g","h","i","j","k","l","m",
           "n","o","p","q","r","s","t","u","v","w","x","y","z">>

UPPER == <<"A","B","C","D","E","F","G","H","I","J","K","L","M",
           "N","O","P","Q","R","S","T","U","V","W","X","Y","Z">>

DIGITS == <<"0","1","2","3","4","5","6","7","8","9">>

IsUpper(c) == IndexOf(UPPER, c) # 0

IsLower(c) == IndexOf(LOWER, c) # 0

CharToLower(c) == IF IsUpper(c) THEN LOWER[IndexOf(UPPER, c)] ELSE c

CharToUpper(c) == IF IsLower(c) THEN UPPER[IndexOf(LOWER, c)] ELSE c

\* str::to_lowercase on ASCII text
to_lowercase(s) == [i \in 1..Len(s) |-> CharToLower(s[i])]

to_uppercase(s) == [i \in 1..Len(s) |-> CharToUpper(s[i])]

\* ASCII code of a letter or digit (the only characters of an HRP used here)
Ord(c) ==
  IF IsLower(c) THEN 96 + IndexOf(LOWER, c)
  ELSE IF IsUpper(c) THEN 64 + IndexOf(UPPER, c)
  ELSE IF IndexOf(DIGITS, c) # 0 THEN 47 + IndexOf(DIGITS, c)
  ELSE 63

\* str::rfind(ch): 1-based position of the last occurrence, 0 when absent
rfind(s, c) ==
  IF \E i \in 1..Len(s) : s[i] = c
  THEN CHOOSE i \in 1..Len(s) : s[i] = c /\ \A j \in (i + 1)..Len(s) : s[j] # c
  ELSE 0

\* str::find(ch): 1-based position of the first occurrence, 0 when absent
find(s, c) ==
  IF \E i \in 1..Len(s) : s[i] = c
  THEN CHOOSE i \in 1..Len(s) : s[i] = c /\ \A j \in 1..(i - 1) : s[j] # c
  ELSE 0

\* bitwise xor of two 5-bit values
Xor5(a, b) ==
  (((a % 2) + (b % 2)) % 2)
    + 2 * ((((a \div 2) % 2) + ((b \div 2) % 2)) % 2)
    + 4 * ((((a \div 4) % 2) + ((b \div 4) % 2)) % 2)
    + 8 * ((((a \div 8) % 2) + ((b \div 8) % 2)) % 2)
    + 16 * ((((a \div 16) % 2) + ((b \div 16) % 2)) % 2)

\* bitwise xor of two 30-bit values
Xor(a, b) ==
  Xor5(a % 32, b % 32)
    + 32 * Xor5((a \div 32) % 32, (b \div 32) % 32)
    + 1024 * Xor5((a \div 1024) % 32, (b \div 1024) % 32)
    + 32768 * Xor5((a \div 32768) % 32, (b \div 32768) % 32)
    + 1048576 * Xor5((a \div 1048576) % 32, (b \div 1048576) % 32)
    + 33554432 * Xor5((a \div 33554432) % 32, (b \div 33554432) % 32)

(***************************************************************************)
(* Result values: Ok(v) / Err(e).                                          *)
(***************************************************************************)
Ok(v) == [ok |-> TRUE, val |-> v]

Err(e) == [ok |-> FALSE, err |-> e]

(***************************************************************************)
(* Base58Check (crate base58ck).  The double-SHA256 digest is an opaque    *)
(* fixed-length digest producer; Digest4 stands for its first four bytes.  *)
(***************************************************************************)
BASE58_CHARS ==
  <<"1","2","3","4","5","6","7","8","9",
    "A","B","C","D","E","F","G","H","J","K","L","M","N","P","Q","R","S","T",
    "U","V","W","X","Y","Z",
    "a","b","c","d","e","f","g","h","i","j","k","m","n","o","p","q","r","s",
    "t","u","v","w","x","y","z">>

\* one pass of long division of the digit string ds (base b) by d:
\* the quotient digits and the remainder
RECURSIVE DivModSeq(_, _, _, _, _)
DivModSeq(ds, b, d, i, st) ==
  IF i > Len(ds) THEN st
  ELSE LET cur == st.r * b + ds[i]
       IN  DivModSeq(ds, b, d, i + 1,
                     [q |-> IF st.q = <<>> /\ cur \div d = 0 THEN <<>>
                            ELSE Append(st.q, cur \div d),
                      r |-> cur % d])

\* digits of the number ds (base b, most significant first) in base d,
\* without leading zero digits
RECURSIVE ToBase(_, _, _)
ToBase(ds, b, d) ==
  IF ds = <<>> THEN <<>>
  ELSE LET st == DivModSeq(ds, b, d, 1, [q |-> <<>>, r |-> 0])
       IN  IF st.q = <<>> /\ st.r = 0 THEN <<>>
           ELSE Append(ToBase(st.q, b, d), st.r)

\* number of leading elements of s equal to z
LeadingCount(s, z) ==
  CHOOSE n \in 0..Len(s) :
    /\ \A i \in 1..n : s[i] = z
    /\ n = Len(s) \/ s[n + 1] # z

Repeat(x, n) == [i \in 1..n |-> x]

\* base58::encode
Base58Encode(data) ==
  LET digs == ToBase(data, 256, 58)
  IN  Repeat("1", LeadingCount(data, 0))
        \o [i \in 1..Len(digs) |-> BASE58_CHARS[digs[i] + 1]]

\* base58::decode
Base58Decode(s) ==
  IF \E i \in 1..Len(s) : IndexOf(BASE58_CHARS, s[i]) = 0
  THEN Err([kind |-> "InvalidCharacter"])
  ELSE LET ds == [i \in 1..Len(s) |-> IndexOf(BASE58_CHARS, s[i]) - 1]
       IN  Ok(Repeat(0, LeadingCount(s, "1")) \o ToBase(ds, 58, 256))

RECURSIVE Mix(_, _, _, _)
Mix(data, i, m, acc) ==
  IF i > Len(data) \/ acc < 0 THEN acc
  ELSE Mix(data, i + 1, m, (acc * m + data[i] + 1) % 65521)

\* first four bytes of sha256d(data)
Digest4(data) ==
  LET a == Mix(data, 1, 131, 7)
      b == Mix(data, 1, 257, 11)
  IN  <<a \div 256, a % 256, b \div 256, b % 256>>

\* base58::encode_check_to_fmt
Base58EncodeCheck(data) == Base58Encode(data \o Digest4(data))

\* base58::decode_check, on the decoded bytes
CheckDecoded(dec) ==
  IF ~dec.ok THEN dec
  ELSE IF Len(dec.val) < 4 THEN Err([kind |-> "TooShort"])
  ELSE IF SubSeqFrom(dec.val, Len(dec.val) - 3)
            # Digest4(SubSeq(dec.val, 1, Len(dec.val) - 4))
    THEN Err([kind |-> "IncorrectChecksum"])
  ELSE Ok(SubSeq(dec.val, 1, Len(dec.val) - 4))

\* base58::decode_check
Base58DecodeCheck(s) == CheckDecoded(Base58Decode(s))

(***************************************************************************)
(* Bech32 / Bech32m segwit codec (crate bech32, BIP173 / BIP350).          *)
(***************************************************************************)
BECH32_CHARS ==
  <<"q","p","z","r","y","9","x","8","g","f","2","t","v","d","w","0",
    "s","3","j","n","5","4","k","h","c","e","6","m","u","a","7","l">>

BECH32_GEN == <<996825010, 642813549, 513874426, 1027748829, 705979059>>

\* checksum constants: Bech32 (witness version 0) and Bech32m (version >= 1)
BECH32_CONST == 1

BECH32M_CONST == 734539939

\* the longest segwit address string bech32 accepts
SEGWIT_MAX_LEN == 90

Pow2(n) == 2 ^ n

RECURSIVE XorGen(_, _, _)
XorGen(chk, top, i) ==
  IF i > 5 THEN chk
  ELSE XorGen(IF (top \div Pow2(i - 1)) % 2 = 1 THEN Xor(chk, BECH32_GEN[i]) ELSE chk,
              top, i + 1)

RECURSIVE Polymod(_, _, _)
Polymod(values, i, chk) ==
  IF i > Len(values) \/ chk < 0 THEN chk
  ELSE Polymod(values, i + 1,
               XorGen(Xor((chk % Pow2(25)) * 32, values[i]), chk \div Pow2(25), 1))

\* the HRP as fed to the checksum: high bits, a zero, low bits (lower-cased)
HrpExpand(hrp) ==
  LET h == to_lowercase(hrp)
  IN  [i \in 1..Len(h) |-> Ord(h[i]) \div 32] \o <<0>>
        \o [i \in 1..Len(h) |-> Ord(h[i]) % 32]

ChecksumConst(version) == IF version = 0 THEN BECH32_CONST ELSE BECH32M_CONST

\* the six checksum symbols of hrp and data symbols under checksum constant c
Bech32Checksum(hrp, data, c) ==
  LET pm == Xor(Polymod(HrpExpand(hrp) \o data \o <<0, 0, 0, 0, 0, 0>>, 1, 1), c)
  IN  [i \in 1..6 |-> (pm \div Pow2(5 * (6 - i))) % 32]

\* bit k (1-based, most significant first) of the concatenation of w-bit words
BitAt(data, w, k) ==
  IF k > Len(data) * w THEN 0
  ELSE (data[((k - 1) \div w) + 1] \div Pow2(w - 1 - ((k - 1) % w))) % 2

RECURSIVE WordAt(_, _, _, _, _)
WordAt(data, from, to, j, t) ==
  IF t >= to THEN 0
  ELSE BitAt(data, from, (j - 1) * to + t + 1) * Pow2(to - 1 - t)
         + WordAt(data, from, to, j, t + 1)

\* bytes to 5-bit symbols, zero padded
BytesToFes(bytes) ==
  [j \in 1..((Len(bytes) * 8 + 4) \div 5) |-> WordAt(bytes, 8, 5, j, 0)]

\* 5-bit symbols to bytes, dropping the padding bits
FesToBytes(fes) ==
  [j \in 1..((Len(fes) * 5) \div 8) |-> WordAt(fes, 5, 8, j, 0)]

\* padding of a symbol string: at most four bits, all zero
PaddingOk(fes) ==
  LET nbits == Len(fes) * 5
      used  == (nbits \div 8) * 8
  IN  /\ nbits - used <= 4
      /\ \A k \in (used + 1)..nbits : BitAt(fes, 5, k) = 0

\* the data symbols followed by their checksum
WithChecksum(hrp, data, c) == data \o Bech32Checksum(hrp, data, c)

\* the text of an HRP and a symbol string
SymbolsToText(hrp, syms) ==
  to_lowercase(hrp) \o <<"1">> \o [i \in 1..Len(syms) |-> BECH32_CHARS[syms[i] + 1]]

\* bech32::segwit::encode_lower_to_fmt_unchecked
SegwitEncodeLower(hrp, version, program) ==
  SymbolsToText(hrp, WithChecksum(hrp, <<version>> \o BytesToFes(program),
                                  ChecksumConst(version)))

\* bech32::segwit::encode_upper_to_fmt_unchecked
SegwitEncodeUpper(hrp, version, program) ==
  to_uppercase(SegwitEncodeLower(hrp, version, program))

\* witness program length rules (script::witness_program::WitnessProgram::new)
ProgramLengthOk(version, n) ==
  /\ n >= 2
  /\ n <= 40
  /\ version = 0 => n \in {20, 32}

Bech32Fail(why) == Err([kind |-> "ParseBech32", why |-> why])

\* bech32::segwit::decode, last stage: the program symbols
DecodeProgram(hrp, ver, prog) ==
  IF ~PaddingOk(prog) THEN Bech32Fail("InvalidPadding")
  ELSE IF ~ProgramLengthOk(ver, (Len(prog) * 5) \div 8)
    THEN Bech32Fail("InvalidWitnessLength")
  ELSE Ok([hrp |-> hrp, version |-> ver, data |-> FesToBytes(prog)])

\* bech32::segwit::decode, on the symbols after the separator
DecodeSymbols(hrp, syms) ==
  IF syms[1] > 16 THEN Bech32Fail("InvalidWitnessVersion")
  ELSE IF Len(syms) < 7 THEN Bech32Fail("InvalidChecksumLength")
  ELSE IF Polymod(HrpExpand(hrp) \o syms, 1, 1) # ChecksumConst(syms[1])
    THEN Bech32Fail("InvalidChecksum")
  ELSE DecodeProgram(hrp, syms[1], SubSeq(syms, 2, Len(syms) - 6))

\* bech32::segwit::decode, on the HRP and the lower-cased characters after
\* the separator
DecodeBody(s, hrp, body) ==
  IF \E i \in 1..Len(body) : IndexOf(BECH32_CHARS, body[i]) = 0
    THEN Bech32Fail("InvalidChar")
  ELSE IF Len(body) = 0 THEN Bech32Fail("NoData")
  ELSE IF Len(s) > SEGWIT_MAX_LEN THEN Bech32Fail("TooLong")
  ELSE DecodeSymbols(hrp, [i \in 1..Len(body) |-> IndexOf(BECH32_CHARS, body[i]) - 1])

\* bech32::segwit::decode, with the separator at position sep
DecodeAt(s, sep) ==
  IF sep = 0 THEN Bech32Fail("MissingSeparator")
  ELSE IF sep = 1 THEN Bech32Fail("EmptyHrp")
  ELSE IF (\E i \in 1..Len(s) : IsUpper(s[i])) /\ (\E i \in 1..Len(s) : IsLower(s[i]))
    THEN Bech32Fail("MixedCase")
  ELSE DecodeBody(s, SubSeq(s, 1, sep - 1), to_lowercase(SubSeqFrom(s, sep + 1)))

\* bech32::segwit::decode: (hrp, witness version, program bytes)
SegwitDecode(s) == DecodeAt(s, rfind(s, "1"))

(***************************************************************************)
(* Networks and their tags.                                                *)
(***************************************************************************)
Networks == {"Bitcoin", "TestnetV3", "TestnetV4", "Signet", "Regtest"}

NetworkKinds == {"Main", "Test"}

KnownHrps == {"Mainnet", "Testnets", "Regtest"}

\* impl From<Network> for NetworkKind
NetworkKind_from(n) == IF n = "Bitcoin" THEN "Main" ELSE "Test"

\* faulty variant of KnownHrp::from_network: Regtest counted among the test
\* networks
KnownHrp_from_network_merged(network) ==
  IF network = "Bitcoin" THEN "Mainnet" ELSE "Testnets"

\* KnownHrp::from_network
KnownHrp_from_network(network) ==
  CASE network = "Bitcoin" -> "Mainnet"
    [] network \in {"TestnetV3", "TestnetV4", "Signet"} -> "Testnets"
    [] network = "Regtest" -> "Regtest"

\* the constants bech32::hrp::BC, TB and BCRT
HRP_BC == <<"b", "c">>

HRP_TB == <<"t", "b">>

HRP_BCRT == <<"b", "c", "r", "t">>

\* Hrp equality ignores case
HrpEq(h1, h2) == to_lowercase(h1) = to_lowercase(h2)

\* Hrp::is_valid_on_testnet
is_valid_on_testnet(hrp) == HrpEq(hrp, HRP_TB)

\* Hrp::is_valid_on_signet
is_valid_on_signet(hrp) == HrpEq(hrp, HRP_TB)

\* faulty variant of KnownHrp::from_hrp: the error carries the HRP as written
KnownHrp_from_hrp_verbatim(hrp) ==
  IF HrpEq(hrp, HRP_BC) THEN Ok("Mainnet")
  ELSE IF is_valid_on_testnet(hrp) \/ is_valid_on_signet(hrp) THEN Ok("Testnets")
  ELSE IF HrpEq(hrp, HRP_BCRT) THEN Ok("Regtest")
  ELSE Err([kind |-> "UnknownHrp", hrp |-> hrp])

\* KnownHrp::from_hrp
KnownHrp_from_hrp(hrp) ==
  IF HrpEq(hrp, HRP_BC) THEN Ok("Mainnet")
  ELSE IF is_valid_on_testnet(hrp) \/ is_valid_on_signet(hrp) THEN Ok("Testnets")
  ELSE IF HrpEq(hrp, HRP_BCRT) THEN Ok("Regtest")
  ELSE Err([kind |-> "UnknownHrp", hrp |-> to_lowercase(hrp)])

\* KnownHrp::to_hrp
KnownHrp_to_hrp(hrp) ==
  CASE hrp = "Mainnet" -> HRP_BC
    [] hrp = "Testnets" -> HRP_TB
    [] hrp = "Regtest" -> HRP_BCRT

\* faulty variant of From<KnownHrp> for NetworkKind: only Testnets is Test
NetworkKind_from_hrp_testnets(hrp) ==
  CASE hrp = "Mainnet" -> "Main"
    [] hrp = "Testnets" -> "Test"
    [] hrp = "Regtest" -> "Main"

\* impl From<KnownHrp> for NetworkKind
NetworkKind_from_hrp(hrp) ==
  CASE hrp = "Mainnet" -> "Main"
    [] hrp = "Testnets" -> "Test"
    [] hrp = "Regtest" -> "Test"

(***************************************************************************)
(* Address values: a payload (AddressInner) under a validation marker.     *)
(***************************************************************************)
PUBKEY_ADDRESS_PREFIX_MAIN == 0

PUBKEY_ADDRESS_PREFIX_TEST == 111

SCRIPT_ADDRESS_PREFIX_MAIN == 5

SCRIPT_ADDRESS_PREFIX_TEST == 196

P2pkhInner(hash, network) == [variant |-> "P2pkh", hash |-> hash, network |-> network]

P2shInner(hash, network) == [variant |-> "P2sh", hash |-> hash, network |-> network]

SegwitInner(program, hrp) == [variant |-> "Segwit", program |-> program, hrp |-> hrp]

\* WitnessProgram: a version and the program bytes
WitnessProgram(version, program) == [version |-> version, program |-> program]

\* Address::from_inner under each marker
Address(marker, inner) == [marker |-> marker, inner |-> inner]

Checked(inner) == Address("Checked", inner)

Unchecked(inner) == Address("Unchecked", inner)

IsAddr(a) == "marker" \in DOMAIN a

\* faulty variant of Display: the P2sh arm writes the P2PKH prefix bytes
Display_pubkey_prefix(inner, alt) ==
  CASE inner.variant \in {"P2pkh", "P2sh"} ->
         Base58EncodeCheck(
           <<IF inner.network = "Main" THEN PUBKEY_ADDRESS_PREFIX_MAIN
             ELSE PUBKEY_ADDRESS_PREFIX_TEST>> \o inner.hash)
    [] inner.variant = "Segwit" ->
         IF alt
         THEN SegwitEncodeUpper(KnownHrp_to_hrp(inner.hrp), inner.program.version,
                                inner.program.program)
         ELSE SegwitEncodeLower(KnownHrp_to_hrp(inner.hrp), inner.program.version,
                                inner.program.program)

\* impl fmt::Display for AddressInner; alt is the alternate flag ({:#})
Display(inner, alt) ==
  CASE inner.variant = "P2pkh" ->
         Base58EncodeCheck(
           <<IF inner.network = "Main" THEN PUBKEY_ADDRESS_PREFIX_MAIN
             ELSE PUBKEY_ADDRESS_PREFIX_TEST>> \o inner.hash)
    [] inner.variant = "P2sh" ->
         Base58EncodeCheck(
           <<IF inner.network = "Main" THEN SCRIPT_ADDRESS_PREFIX_MAIN
             ELSE SCRIPT_ADDRESS_PREFIX_TEST>> \o inner.hash)
    [] inner.variant = "Segwit" ->
         IF alt
         THEN SegwitEncodeUpper(KnownHrp_to_hrp(inner.hrp), inner.program.version,
                                inner.program.program)
         ELSE SegwitEncodeLower(KnownHrp_to_hrp(inner.hrp), inner.program.version,
                                inner.program.program)

\* Address::network_kind
network_kind(a) ==
  CASE a.inner.variant = "P2pkh" -> a.inner.network
    [] a.inner.variant = "P2sh" -> a.inner.network
    [] a.inner.variant = "Segwit" -> NetworkKind_from_hrp(a.inner.hrp)

\* faulty variant of p2pkh: the address is tagged Main whatever the network
p2pkh_main(hash, network) == Checked(P2pkhInner(hash, "Main"))

\* Address::p2pkh
p2pkh(hash, network) == Checked(P2pkhInner(hash, NetworkKind_from(network)))

\* Address::p2sh_from_hash
p2sh_from_hash(hash, network) == Checked(P2shInner(hash, NetworkKind_from(network)))

\* Address::from_witness_program
from_witness_program(program, network) ==
  Checked(SegwitInner(program, KnownHrp_from_network(network)))

\* faulty variant of into_unchecked: the regtest tag is folded into Testnets
into_unchecked_folded(a) ==
  IF a.inner.variant = "Segwit" /\ a.inner.hrp = "Regtest"
  THEN Unchecked(SegwitInner(a.inner.program, "Testnets"))
  ELSE Unchecked(a.inner)

\* Address::into_unchecked
into_unchecked(a) == Unchecked(a.inner)

\* Address::as_unchecked
as_unchecked(a) == Unchecked(a.inner)

\* Address<NetworkUnchecked>::assume_checked
assume_checked(a) == Checked(a.inner)

\* Address<NetworkUnchecked>::assume_checked_ref
assume_checked_ref(a) == Checked(a.inner)

\* faulty variant of is_valid_for_network: legacy tags compared through the
\* HRP classes
is_valid_for_network_hrp(a, n) ==
  CASE a.inner.variant \in {"P2pkh", "P2sh"} ->
         KnownHrp_from_network(n)
           = (IF a.inner.network = "Main" THEN "Mainnet" ELSE "Testnets")
    [] a.inner.variant = "Segwit" -> a.inner.hrp = KnownHrp_from_network(n)

\* faulty variant of is_valid_for_network: segwit tags compared through
\* their NetworkKind
is_valid_for_network_kind(a, n) ==
  CASE a.inner.variant \in {"P2pkh", "P2sh"} -> a.inner.network = NetworkKind_from(n)
    [] a.inner.variant = "Segwit" ->
         NetworkKind_from_hrp(a.inner.hrp) = NetworkKind_from(n)

\* faulty variant of is_valid_for_network: a legacy address passes for any
\* network
is_valid_for_network_legacy_any(a, n) ==
  CASE a.inner.variant = "P2pkh" -> TRUE
    [] a.inner.variant = "P2sh" -> TRUE
    [] a.inner.variant = "Segwit" -> a.inner.hrp = KnownHrp_from_network(n)

\* Address<NetworkUnchecked>::is_valid_for_network
is_valid_for_network(a, n) ==
  CASE a.inner.variant = "P2pkh" -> a.inner.network = NetworkKind_from(n)
    [] a.inner.variant = "P2sh" -> a.inner.network = NetworkKind_from(n)
    [] a.inner.variant = "Segwit" -> a.inner.hrp = KnownHrp_from_network(n)

\* faulty variant of require_network: the check compares network kinds only
require_network_kind(a, required) ==
  IF is_valid_for_network_kind(a, required) THEN Ok(Checked(a.inner))
  ELSE Err([kind |-> "NetworkValidation", required |-> required, address |-> a])

\* faulty variant of require_network: the error carries the address
\* re-tagged instead of the Unchecked address it was given
require_network_retagged(a, required) ==
  IF is_valid_for_network(a, required) THEN Ok(Checked(a.inner))
  ELSE Err([kind |-> "NetworkValidation", required |-> required,
            address |-> Checked(a.inner)])

\* Address<NetworkUnchecked>::require_network
require_network(a, required) ==
  IF is_valid_for_network(a, required) THEN Ok(assume_checked(a))
  ELSE Err([kind |-> "NetworkValidation", required |-> required, address |-> a])

\* from_bech32_str, lines 910-912: the address of a decoded string whose HRP
\* from_hrp has looked up
SegwitOfDecoded(d, hrp) ==
  IF ~hrp.ok THEN hrp
  ELSE Ok(Unchecked(SegwitInner(WitnessProgram(d.version, d.data), hrp.val)))

\* from_bech32_str, lines 905-910: on the result of bech32::segwit::decode
AddressOfDecoded(dec) ==
  IF ~dec.ok THEN dec
  ELSE IF dec.val.version > 16 THEN Err([kind |-> "WitnessVersion"])
  ELSE SegwitOfDecoded(dec.val, KnownHrp_from_hrp(dec.val.hrp))

\* Address<NetworkUnchecked>::from_bech32_str
from_bech32_str(s) == AddressOfDecoded(SegwitDecode(s))

\* faulty variant of LegacyOfPayload: the two test-network prefixes exchanged
LegacyOfPayload_swapped(prefix, data) ==
  CASE prefix = PUBKEY_ADDRESS_PREFIX_MAIN -> Ok(Unchecked(P2pkhInner(data, "Main")))
    [] prefix = SCRIPT_ADDRESS_PREFIX_TEST -> Ok(Unchecked(P2pkhInner(data, "Test")))
    [] prefix = SCRIPT_ADDRESS_PREFIX_MAIN -> Ok(Unchecked(P2shInner(data, "Main")))
    [] prefix = PUBKEY_ADDRESS_PREFIX_TEST -> Ok(Unchecked(P2shInner(data, "Test")))
    [] OTHER -> Err([kind |-> "InvalidLegacyPrefix", invalid |-> prefix])

\* from_base58_str, lines 924-946: the prefix byte and the hash
LegacyOfPayload(prefix, data) ==
  CASE prefix = PUBKEY_ADDRESS_PREFIX_MAIN -> Ok(Unchecked(P2pkhInner(data, "Main")))
    [] prefix = PUBKEY_ADDRESS_PREFIX_TEST -> Ok(Unchecked(P2pkhInner(data, "Test")))
    [] prefix = SCRIPT_ADDRESS_PREFIX_MAIN -> Ok(Unchecked(P2shInner(data, "Main")))
    [] prefix = SCRIPT_ADDRESS_PREFIX_TEST -> Ok(Unchecked(P2shInner(data, "Test")))
    [] OTHER -> Err([kind |-> "InvalidLegacyPrefix", invalid |-> prefix])

\* from_base58_str, lines 920-922: on the result of base58::decode_check
AddressOfPayload(s, dec) ==
  IF ~dec.ok THEN Err([kind |-> "ParseBase58", why |-> dec.err.kind])
  ELSE IF Len(dec.val) # 21
    THEN Err([kind |-> "InvalidBase58PayloadLength", length |-> Len(s)])
  ELSE LegacyOfPayload(dec.val[1], Tail(dec.val))

\* faulty variant of from_base58_str: the length guard after the decoding
from_base58_str_late(s) ==
  IF ~Base58DecodeCheck(s).ok THEN AddressOfPayload(s, Base58DecodeCheck(s))
  ELSE IF Len(s) > 50 THEN Err([kind |-> "LegacyAddressTooLong", length |-> Len(s)])
  ELSE AddressOfPayload(s, Base58DecodeCheck(s))

\* Address<NetworkUnchecked>::from_base58_str
from_base58_str(s) ==
  IF Len(s) > 50 THEN Err([kind |-> "LegacyAddressTooLong", length |-> Len(s)])
  ELSE AddressOfPayload(s, Base58DecodeCheck(s))

SEGWIT_PREFIXES == {<<"b", "c", "1">>, <<"b", "c", "r", "t", "1">>, <<"t", "b", "1">>}

LEGACY_PREFIXES == {<<"1">>, <<"2">>, <<"3">>, <<"m">>, <<"n">>}

\* faulty variant of Route: the segwit prefixes compared without lower-casing
Route_case_sensitive(s) ==
  IF \E prefix \in SEGWIT_PREFIXES : StartsWith(s, prefix) THEN "bech32"
  ELSE IF \E prefix \in LEGACY_PREFIXES : StartsWith(s, prefix) THEN "base58"
  ELSE "unknown"

\* the decoder from_str hands the string to
Route(s) ==
  IF \E prefix \in SEGWIT_PREFIXES : StartsWith(to_lowercase(s), prefix) THEN "bech32"
  ELSE IF \E prefix \in LEGACY_PREFIXES : StartsWith(s, prefix) THEN "base58"
  ELSE "unknown"

\* from_str, lines 992-997: a decoder's error as a ParseError of the given
\* kind, its address re-wrapped by from_inner
Rewrap(kind, address) ==
  IF ~address.ok THEN Err([kind |-> kind, inner |-> address.err])
  ELSE Ok(Unchecked(address.val.inner))

\* from_str, lines 999-1003: the unknown-HRP error for the separator at pos
UnknownHrpAt(s, pos) ==
  Err([kind |-> "UnknownHrp", hrp |-> IF pos # 0 THEN SubSeq(s, 1, pos - 1) ELSE s])

\* faulty variant of from_str: the diagnostic HRP cut at the first '1'
from_str_find(s) ==
  CASE Route(s) = "bech32" -> Rewrap("Bech32", from_bech32_str(s))
    [] Route(s) = "base58" -> Rewrap("Base58", from_base58_str(s))
    [] OTHER -> UnknownHrpAt(s, find(s, "1"))

\* impl FromStr for Address<U>
from_str(s) ==
  CASE Route(s) = "bech32" -> Rewrap("Bech32", from_bech32_str(s))
    [] Route(s) = "base58" -> Rewrap("Base58", from_base58_str(s))
    [] OTHER -> UnknownHrpAt(s, rfind(s, "1"))

\* visit_str, line 443: the parse error as the deserializer's custom error
CustomError(address) ==
  IF ~address.ok THEN Err([kind |-> "Custom", inner |-> address.err]) ELSE address

\* faulty variant of deserialize: the address comes back under the Checked
\* marker
deserialize_checked(v) ==
  IF from_str(v).ok THEN Ok(Checked(from_str(v).val.inner)) ELSE CustomError(from_str(v))

\* impl serde::Deserialize for Address<U>: Visitor::visit_str
deserialize(v) == CustomError(from_str(v))

\* enum AddressType
AddressTypes == {"P2pkh", "P2sh", "P2wpkh", "P2wsh", "P2tr", "P2a"}

\* impl fmt::Display for AddressType
AddressType_Display(t) ==
  CASE t = "P2pkh" -> <<"p", "2", "p", "k", "h">>
    [] t = "P2sh" -> <<"p", "2", "s", "h">>
    [] t = "P2wpkh" -> <<"p", "2", "w", "p", "k", "h">>
    [] t = "P2wsh" -> <<"p", "2", "w", "s", "h">>
    [] t = "P2tr" -> <<"p", "2", "t", "r">>
    [] t = "P2a" -> <<"p", "2", "a">>

\* the match of AddressType::from_str on an exact string
AddressType_match(s, unknown) ==
  CASE s = <<"p", "2", "p", "k", "h">> -> Ok("P2pkh")
    [] s = <<"p", "2", "s", "h">> -> Ok("P2sh")
    [] s = <<"p", "2", "w", "p", "k", "h">> -> Ok("P2wpkh")
    [] s = <<"p", "2", "w", "s", "h">> -> Ok("P2wsh")
    [] s = <<"p", "2", "t", "r">> -> Ok("P2tr")
    [] s = <<"p", "2", "a">> -> Ok("P2a")
    [] OTHER -> Err([kind |-> "UnknownAddressType", input |-> unknown])

\* faulty variant of AddressType::from_str: letter case is ignored
AddressType_from_str_nocase(s) == AddressType_match(to_lowercase(s), s)

\* impl FromStr for AddressType
AddressType_from_str(s) == AddressType_match(s, s)

(***************************************************************************)
(* Script bridge.  Scripts are byte strings; the template predicates of    *)
(* the script module are given by their byte patterns.                     *)
(***************************************************************************)
OP_DUP == 118

OP_HASH160 == 169

OP_PUSHBYTES_20 == 20

OP_EQUALVERIFY == 136

OP_CHECKSIG == 172

OP_EQUAL == 135

OP_PUSHNUM_1 == 81

\* ScriptBuf::new_p2pkh
new_p2pkh(hash) ==
  <<OP_DUP, OP_HASH160, OP_PUSHBYTES_20>> \o hash \o <<OP_EQUALVERIFY, OP_CHECKSIG>>

\* ScriptBuf::new_p2sh
new_p2sh(hash) == <<OP_HASH160, OP_PUSHBYTES_20>> \o hash \o <<OP_EQUAL>>

\* the opcode of a witness version: OP_0, OP_1 .. OP_16
VersionOpcode(version) == IF version = 0 THEN 0 ELSE OP_PUSHNUM_1 + version - 1

\* script::new_witness_program_unchecked
new_witness_program_unchecked(version, program) ==
  <<VersionOpcode(version), Len(program)>> \o program

\* faulty variant of is_p2pkh: the opcodes after the hash are not looked at
is_p2pkh_prefix(script) ==
  /\ Len(script) = 25
  /\ script[1] = OP_DUP
  /\ script[2] = OP_HASH160
  /\ script[3] = OP_PUSHBYTES_20

\* Script::is_p2pkh
is_p2pkh(script) ==
  /\ Len(script) = 25
  /\ script[1] = OP_DUP
  /\ script[2] = OP_HASH160
  /\ script[3] = OP_PUSHBYTES_20
  /\ script[24] = OP_EQUALVERIFY
  /\ script[25] = OP_CHECKSIG

\* Script::is_p2sh
is_p2sh(script) ==
  /\ Len(script) = 23
  /\ script[1] = OP_HASH160
  /\ script[2] = OP_PUSHBYTES_20
  /\ script[23] = OP_EQUAL

\* Script::is_witness_program
is_witness_program(script) ==
  /\ Len(script) >= 4
  /\ Len(script) <= 42
  /\ script[1] = 0 \/ (script[1] >= OP_PUSHNUM_1 /\ script[1] <= OP_PUSHNUM_1 + 15)
  /\ script[2] >= 2
  /\ script[2] <= 40
  /\ Len(script) - 2 = script[2]

\* WitnessVersion::try_from(opcode)
WitnessVersion_from_opcode(opcode) == IF opcode = 0 THEN 0 ELSE opcode - OP_PUSHNUM_1 + 1

\* WitnessProgram::new
WitnessProgram_new(version, bytes) ==
  IF Len(bytes) < 2 \/ Len(bytes) > 40
    THEN Err([kind |-> "WitnessProgram", why |-> "InvalidLength", length |-> Len(bytes)])
  ELSE IF version = 0 /\ Len(bytes) \notin {20, 32}
    THEN Err([kind |-> "WitnessProgram", why |-> "InvalidSegwitV0Length",
              length |-> Len(bytes)])
  ELSE Ok(WitnessProgram(version, bytes))

\* the pay-to-anchor program (witness version 1, bytes 4e73)
P2A_PROGRAM == <<78, 115>>

\* WitnessProgram::is_p2wpkh
is_p2wpkh(program) == program.version = 0 /\ Len(program.program) = 20

\* WitnessProgram::is_p2wsh
is_p2wsh(program) == program.version = 0 /\ Len(program.program) = 32

\* WitnessProgram::is_p2tr
is_p2tr(program) == program.version = 1 /\ Len(program.program) = 32

\* WitnessProgram::is_p2a
is_p2a(program) == program.version = 1 /\ program.program = P2A_PROGRAM

\* Option::Some
Some(v) == [some |-> v]

\* faulty variant of address_type: the pay-to-anchor program is not known
address_type_no_anchor(a) ==
  CASE a.inner.variant = "P2pkh" -> Some("P2pkh")
    [] a.inner.variant = "P2sh" -> Some("P2sh")
    [] a.inner.variant = "Segwit" ->
         IF is_p2wpkh(a.inner.program) THEN Some("P2wpkh")
         ELSE IF is_p2wsh(a.inner.program) THEN Some("P2wsh")
         ELSE IF is_p2tr(a.inner.program) THEN Some("P2tr")
         ELSE None

\* Address::address_type
address_type(a) ==
  CASE a.inner.variant = "P2pkh" -> Some("P2pkh")
    [] a.inner.variant = "P2sh" -> Some("P2sh")
    [] a.inner.variant = "Segwit" ->
         IF is_p2wpkh(a.inner.program) THEN Some("P2wpkh")
         ELSE IF is_p2wsh(a.inner.program) THEN Some("P2wsh")
         ELSE IF is_p2tr(a.inner.program) THEN Some("P2tr")
         ELSE IF is_p2a(a.inner.program) THEN Some("P2a")
         ELSE None

\* Address::is_spend_standard
is_spend_standard(a) == address_type(a) # None

\* faulty variant of script_pubkey: the P2sh arm builds the P2PKH script
script_pubkey_p2pkh_arm(a) ==
  CASE a.inner.variant = "P2pkh" -> new_p2pkh(a.inner.hash)
    [] a.inner.variant = "P2sh" -> new_p2pkh(a.inner.hash)
    [] a.inner.variant = "Segwit" ->
         new_witness_program_unchecked(a.inner.program.version, a.inner.program.program)

\* Address::script_pubkey
script_pubkey(a) ==
  CASE a.inner.variant = "P2pkh" -> new_p2pkh(a.inner.hash)
    [] a.inner.variant = "P2sh" -> new_p2sh(a.inner.hash)
    [] a.inner.variant = "Segwit" ->
         new_witness_program_unchecked(a.inner.program.version, a.inner.program.program)

\* Address::payload_as_bytes
payload_as_bytes(a) ==
  CASE a.inner.variant = "P2sh" -> a.inner.hash
    [] a.inner.variant = "P2pkh" -> a.inner.hash
    [] a.inner.variant = "Segwit" -> a.inner.program.program

\* Address::is_related_to_xonly_pubkey, the key given by its 32-byte
\* serialization
is_related_to_xonly_pubkey(a, xonly_pubkey) == xonly_pubkey = payload_as_bytes(a)

\* Address::matches_script_pubkey
matches_script_pubkey(a, script) ==
  CASE a.inner.variant = "P2pkh" /\ is_p2pkh(script) ->
         SubSeq(script, 4, 23) = a.inner.hash
    [] a.inner.variant = "P2sh" /\ is_p2sh(script) ->
         SubSeq(script, 3, 22) = a.inner.hash
    [] a.inner.variant = "Segwit" /\ is_witness_program(script) ->
         SubSeqFrom(script, 3) = a.inner.program.program
    [] OTHER -> FALSE

\* faulty variant of from_script: the P2PKH hash read one byte early
from_script_offset(script, network) ==
  IF is_p2pkh(script) THEN Ok(p2pkh(SubSeq(script, 3, 22), network))
  ELSE IF is_p2sh(script) THEN Ok(p2sh_from_hash(SubSeq(script, 3, 22), network))
  ELSE IF is_witness_program(script)
  THEN LET version == WitnessVersion_from_opcode(script[1])
           program == WitnessProgram_new(version, SubSeqFrom(script, 3))
       IN  IF ~program.ok THEN program
           ELSE Ok(from_witness_program(program.val, network))
  ELSE Err([kind |-> "UnrecognizedScript"])

\* faulty variant of from_script: a refused witness program is reported as
\* an unrecognized script
from_script_unrecognized(script, network) ==
  IF is_p2pkh(script) THEN Ok(p2pkh(SubSeq(script, 4, 23), network))
  ELSE IF is_p2sh(script) THEN Ok(p2sh_from_hash(SubSeq(script, 3, 22), network))
  ELSE IF is_witness_program(script)
  THEN LET version == WitnessVersion_from_opcode(script[1])
           program == WitnessProgram_new(version, SubSeqFrom(script, 3))
       IN  IF ~program.ok THEN Err([kind |-> "UnrecognizedScript"])
           ELSE Ok(from_witness_program(program.val, network))
  ELSE Err([kind |-> "UnrecognizedScript"])

\* Address::from_script
from_script(script, network) ==
  IF is_p2pkh(script) THEN Ok(p2pkh(SubSeq(script, 4, 23), network))
  ELSE IF is_p2sh(script) THEN Ok(p2sh_from_hash(SubSeq(script, 3, 22), network))
  ELSE IF is_witness_program(script)
  THEN LET version == WitnessVersion_from_opcode(script[1])
           program == WitnessProgram_new(version, SubSeqFrom(script, 3))
       IN  IF ~program.ok THEN program
           ELSE Ok(from_witness_program(program.val, network))
  ELSE Err([kind |-> "UnrecognizedScript"])

(***************************************************************************)
(* Sample inputs.                                                          *)
(***************************************************************************)
\* the i-th sample byte string of length n
Hash(i, n) == [k \in 1..n |-> (i * 37 + k * 11) % 256]

Hashes == {Hash(i, 20) : i \in 1..NumHashes}

Programs ==
  {WitnessProgram(0, Hash(i, 20)) : i \in 1..NumHashes}
    \cup {WitnessProgram(0, Hash(i, 32)) : i \in 1..NumHashes}
    \cup {WitnessProgram(1, Hash(i, 32)) : i \in 1..NumHashes}
    \cup {WitnessProgram(16, Hash(i, 40)) : i \in 1..NumHashes}
    \cup {WitnessProgram(1, P2A_PROGRAM)}
    \* witness version 1 of another length, and a later version
    \cup {WitnessProgram(1, Hash(1, 20)), WitnessProgram(2, Hash(1, 32))}

\* a well-formed Bech32m string: "bcrt1pfeesnyr2tx"
STR_P2A == SegwitEncodeLower(HRP_BCRT, 1, P2A_PROGRAM)

\* a well-formed legacy string
STR_P2PKH == Base58EncodeCheck(<<PUBKEY_ADDRESS_PREFIX_MAIN>> \o Hash(1, 20))

\* a well-formed Bech32 string whose HRP, "bc1x", is none of the known ones
STR_UNKNOWN_HRP == SegwitEncodeLower(<<"b", "c", "1", "x">>, 0, Hash(1, 20))

\* strings handed to the parser from outside
Inputs ==
  { \* well-formed segwit text in upper case
    to_uppercase(STR_P2A),
    \* mixed case
    <<"B">> \o Tail(STR_P2A),
    \* last character changed: checksum failure
    SubSeq(STR_P2A, 1, Len(STR_P2A) - 1) \o <<"q">>,
    \* segwit prefix followed by Base58 characters only
    <<"b", "c", "1">> \o Tail(STR_P2PKH),
    <<"T", "B", "1">>,
    \* well-formed Bech32 whose HRP is "bc1x", in lower and in upper case
    STR_UNKNOWN_HRP,
    to_uppercase(STR_UNKNOWN_HRP),
    \* legacy string with the last character changed
    SubSeq(STR_P2PKH, 1, Len(STR_P2PKH) - 1) \o <<"1">>,
    \* legacy prefix, character outside the Base58 alphabet
    <<"m", "O", "0", "l">>,
    <<"n">>,
    \* Base58Check of a 20-byte payload
    Base58EncodeCheck(<<PUBKEY_ADDRESS_PREFIX_MAIN>> \o Hash(1, 19)),
    \* Base58Check of a payload whose prefix byte is none of the four
    Base58EncodeCheck(<<4>> \o Hash(1, 20)),
    \* 51 characters
    Repeat("1", 51),
    \* 51 characters, all but the first outside the Base58 alphabet
    <<"1">> \o Repeat("0", 50),
    \* 50 characters, all but the first outside the Base58 alphabet
    <<"1">> \o Repeat("0", 49),
    \* neither prefix class
    <<"l", "t", "c", "1", "q", "x", "y", "z">>,
    <<"x", "1", "y", "1", "z">>,
    <<"a", "b", "c">>,
    <<"M", "x", "y", "z">>,
    <<>> }

\* strings handed to AddressType::from_str: the six type names and others
TypeInputs ==
  {AddressType_Display(t) : t \in AddressTypes}
    \cup {to_uppercase(AddressType_Display(t)) : t \in AddressTypes}
    \cup { <<"i", "n", "v", "a", "l", "i", "d">>,
           <<"P", "2", "t", "r">>,
           <<"p", "2", "t", "r", " ">>,
           <<"p", "2">>,
           <<>> }

\* serialized x-only public keys: 32-byte strings
XOnlyKeys == {Hash(i, 32) : i \in 1..NumHashes}

\* scripts handed to from_script from outside
Scripts ==
  { <<>>,
    \* witness version 0 with a 17-byte program
    new_witness_program_unchecked(0, Hash(1, 17)),
    \* witness version 0 with a 2-byte program
    new_witness_program_unchecked(0, P2A_PROGRAM),
    \* P2PKH template with the last opcode changed
    SubSeq(new_p2pkh(Hash(1, 20)), 1, 24) \o <<OP_EQUAL>>,
    \* P2SH template with the last opcode changed
    SubSeq(new_p2sh(Hash(1, 20)), 1, 22) \o <<OP_EQUALVERIFY>>,
    \* witness version 0 whose push length is not the length of what follows
    <<0, 20>> \o Hash(1, 19),
    \* the opcode after OP_16 followed by a two-byte push
    <<OP_PUSHNUM_1 + 16, 2>> \o P2A_PROGRAM,
    \* OP_RETURN
    <<106>> }

(***************************************************************************)
(* The state: the address value at hand (addr), the text and script        *)
(* buffers, and the last operation (op) with its network argument (param), *)
(* its result (res) and the address it operated on (prev): the receiver of *)
(* a method, or the address whose text or script a parser was given.       *)
(* cand is the script or the key a Checked address was compared with.      *)
(***************************************************************************)
\* every payload the constructors are given
Inners ==
  {P2pkhInner(h, k) : h \in Hashes, k \in NetworkKinds}
    \cup {P2shInner(h, k) : h \in Hashes, k \in NetworkKinds}
    \cup {SegwitInner(p, k) : p \in Programs, k \in KnownHrps}

\* the default text of every payload (Display computed once per payload)
DisplayOf == [i \in Inners |-> Display(i, FALSE)]

\* the alternate text ({:#}) of every payload
DisplayAltOf == [i \in Inners |-> Display(i, TRUE)]

\* faulty variant of serialize: the alternate form is written
serialize_alternate(a) == DisplayAltOf[a.inner]

\* impl serde::Serialize for Address<V>: the string collect_str gets from
\* DisplayUnchecked, the Display of the payload under either marker
serialize(a) == DisplayOf[a.inner]

\* the URI scheme and its separator
BITCOIN_URI == <<"b", "i", "t", "c", "o", "i", "n", ":">>

\* faulty variant of to_qr_uri: the default form after the scheme
to_qr_uri_default(a) == BITCOIN_URI \o DisplayOf[a.inner]

\* Address::to_qr_uri: format!("bitcoin:{:#}", self)
to_qr_uri(a) == BITCOIN_URI \o DisplayAltOf[a.inner]

\* the text Debug writes before the address of an Unchecked value
DEBUG_UNCHECKED ==
  <<"A", "d", "d", "r", "e", "s", "s", "<", "N", "e", "t", "w", "o", "r", "k",
    "U", "n", "c", "h", "e", "c", "k", "e", "d", ">", "(">>

\* faulty variant of debug: the address text under either marker
debug_plain(a) == DisplayOf[a.inner]

\* impl fmt::Debug for Address<V>
debug(a) ==
  IF a.marker = "Checked" THEN DisplayOf[a.inner]
  ELSE DEBUG_UNCHECKED \o DisplayOf[a.inner] \o <<")">>

\* every string the parsers are given
Strings == Inputs \cup TypeInputs \cup {DisplayOf[i] : i \in Inners}

\* the parse of every string (each parser computed once per string)
Parsed == [s \in Strings |-> from_str(s)]

ParsedBech32 == [s \in Strings |-> from_bech32_str(s)]

ParsedBase58 == [s \in Strings |-> from_base58_str(s)]

Deserialized == [s \in Strings |-> deserialize(s)]

\* buffer contents
Text(s) == [str |-> s]

Bytes(b) == [bytes |-> b]

NoParam == "none"

NoRoute == "none"

VARIABLES addr, prev, text, script, op, param, res, route, cand

vars == <<addr, prev, text, script, op, param, res, route, cand>>

Init ==
  /\ addr = None
  /\ prev = None
  /\ text = None
  /\ script = None
  /\ op = "init"
  /\ param = NoParam
  /\ res = None
  /\ route = NoRoute
  /\ cand = None

\* faulty variant of HasAddr: any marker will do
HasAddr_any(m) == IsAddr(addr)

\* the address at hand has the marker the impl block of a method asks for
HasAddr(m) == IsAddr(addr) /\ addr.marker = m

\* Address::p2pkh(hash, network)
NewP2pkh ==
  \E h \in Hashes, n \in Networks :
    /\ addr' = p2pkh(h, n)
    /\ op' = "p2pkh"
    /\ param' = n
    /\ prev' = None /\ text' = None /\ script' = None /\ res' = None /\ route' = NoRoute /\ cand' = None

\* Address::p2sh_from_hash(hash, network)
NewP2sh ==
  \E h \in Hashes, n \in Networks :
    /\ addr' = p2sh_from_hash(h, n)
    /\ op' = "p2sh_from_hash"
    /\ param' = n
    /\ prev' = None /\ text' = None /\ script' = None /\ res' = None /\ route' = NoRoute /\ cand' = None

\* Address::from_witness_program(program, network)
NewSegwit ==
  \E p \in Programs, n \in Networks :
    /\ addr' = from_witness_program(p, n)
    /\ op' = "from_witness_program"
    /\ param' = n
    /\ prev' = None /\ text' = None /\ script' = None /\ res' = None /\ route' = NoRoute /\ cand' = None

\* addr.to_string(): Display of a Checked address
Format ==
  /\ HasAddr("Checked")
  /\ text' = Text(DisplayOf[addr.inner])
  /\ op' = "to_string"
  /\ prev' = addr
  /\ UNCHANGED addr
  /\ param' = NoParam /\ script' = None /\ res' = None /\ route' = NoRoute /\ cand' = None

\* the strings a parser can be given: an outside string, or the text buffer
\* (the text of the address at hand)
FromOutside(s) == [str |-> s, of |-> None]

ParserInputs ==
  {FromOutside(s) : s \in Inputs}
    \cup (IF text = None THEN {} ELSE {[str |-> text.str, of |-> addr]})

\* a parser called on the input i: r is its result, rt the decoder the
\* prefix dispatch chose (NoRoute for the parsers that do not dispatch)
Parse(name, i, r, rt) ==
  /\ res' = r
  /\ addr' = IF r.ok THEN r.val ELSE None
  /\ route' = rt
  /\ text' = Text(i.str)
  /\ op' = name
  /\ prev' = i.of
  /\ param' = NoParam /\ script' = None /\ cand' = None

\* s.parse::<Address<_>>()
FromStr ==
  \E i \in ParserInputs : Parse("from_str", i, Parsed[i.str], Route(i.str))

\* Address::from_bech32_str(s)
FromBech32Str ==
  \E i \in ParserInputs : Parse("from_bech32_str", i, ParsedBech32[i.str], NoRoute)

\* Address::from_base58_str(s)
FromBase58Str ==
  \E i \in ParserInputs : Parse("from_base58_str", i, ParsedBase58[i.str], NoRoute)

\* Address::<U>::deserialize of the string s
Deserialize ==
  \E i \in ParserInputs : Parse("deserialize", i, Deserialized[i.str], NoRoute)

\* u.require_network(n)
RequireNetwork ==
  /\ HasAddr("Unchecked")
  /\ \E n \in Networks :
       LET r == require_network(addr, n)
       IN  /\ res' = r
           /\ addr' = IF r.ok THEN r.val ELSE None
           /\ param' = n
           /\ op' = "require_network"
           /\ prev' = addr
           /\ text' = None /\ script' = None /\ route' = NoRoute /\ cand' = None

\* u.is_valid_for_network(n)
IsValidForNetwork ==
  /\ HasAddr("Unchecked")
  /\ \E n \in Networks :
       /\ res' = Ok(is_valid_for_network(addr, n))
       /\ param' = n
       /\ op' = "is_valid_for_network"
       /\ prev' = addr
       /\ UNCHANGED addr
       /\ text' = None /\ script' = None /\ route' = NoRoute /\ cand' = None

\* u.assume_checked()
AssumeChecked ==
  /\ HasAddr("Unchecked")
  /\ addr' = assume_checked(addr)
  /\ op' = "assume_checked"
  /\ prev' = addr
  /\ param' = NoParam /\ text' = None /\ script' = None /\ res' = None /\ route' = NoRoute /\ cand' = None

\* u.assume_checked_ref(): a Checked view, the value itself stays as it is
AssumeCheckedRef ==
  /\ HasAddr("Unchecked")
  /\ res' = Ok(assume_checked_ref(addr))
  /\ op' = "assume_checked_ref"
  /\ prev' = addr
  /\ UNCHANGED addr
  /\ param' = NoParam /\ text' = None /\ script' = None /\ route' = NoRoute /\ cand' = None

\* a.into_unchecked()
IntoUnchecked ==
  /\ IsAddr(addr)
  /\ addr' = into_unchecked(addr)
  /\ op' = "into_unchecked"
  /\ prev' = addr
  /\ param' = NoParam /\ text' = None /\ script' = None /\ res' = None /\ route' = NoRoute /\ cand' = None

\* faulty variant of AsUnchecked: the value itself is re-tagged
AsUnchecked_in_place ==
  /\ IsAddr(addr)
  /\ res' = Ok(as_unchecked(addr))
  /\ op' = "as_unchecked"
  /\ prev' = addr
  /\ addr' = as_unchecked(addr)
  /\ param' = NoParam /\ text' = None /\ script' = None /\ route' = NoRoute /\ cand' = None

\* a.as_unchecked(): an Unchecked view, the value itself stays as it is
AsUnchecked ==
  /\ IsAddr(addr)
  /\ res' = Ok(as_unchecked(addr))
  /\ op' = "as_unchecked"
  /\ prev' = addr
  /\ UNCHANGED addr
  /\ param' = NoParam /\ text' = None /\ script' = None /\ route' = NoRoute /\ cand' = None

\* a.script_pubkey() of a Checked address
ScriptPubkey ==
  /\ HasAddr("Checked")
  /\ script' = Bytes(script_pubkey(addr))
  /\ op' = "script_pubkey"
  /\ prev' = addr
  /\ UNCHANGED addr
  /\ param' = NoParam /\ text' = None /\ res' = None /\ route' = NoRoute /\ cand' = None

\* the scripts from_script can be given: an outside script, or the script
\* buffer (the script of the address at hand)
ScriptInputs ==
  {[bytes |-> b, of |-> None] : b \in Scripts}
    \cup (IF script = None THEN {} ELSE {[bytes |-> script.bytes, of |-> addr]})

\* Address::from_script(script, n)
FromScript ==
  \E i \in ScriptInputs, n \in Networks :
    LET r == from_script(i.bytes, n)
    IN  /\ res' = r
        /\ addr' = IF r.ok THEN r.val ELSE None
        /\ script' = Bytes(i.bytes)
        /\ param' = n
        /\ op' = "from_script"
        /\ prev' = i.of
        /\ text' = None /\ route' = NoRoute /\ cand' = None

\* the scripts an address can be compared with: an outside script, or the
\* script of any address
MatchCandidates == Scripts \cup {script_pubkey(Checked(i)) : i \in Inners}

\* a.matches_script_pubkey(s) of a Checked address
MatchesScriptPubkey ==
  /\ HasAddr("Checked")
  /\ \E s \in MatchCandidates :
       /\ res' = Ok(matches_script_pubkey(addr, s))
       /\ cand' = Bytes(s)
       /\ op' = "matches_script_pubkey"
       /\ prev' = addr
       /\ UNCHANGED addr
       /\ param' = NoParam /\ text' = None /\ script' = None /\ route' = NoRoute

\* a.address_type() and a.is_spend_standard() of a Checked address
AddressTypeOf ==
  /\ HasAddr("Checked")
  /\ res' = Ok([type |-> address_type(addr), standard |-> is_spend_standard(addr)])
  /\ op' = "address_type"
  /\ prev' = addr
  /\ UNCHANGED addr
  /\ param' = NoParam /\ text' = None /\ script' = None /\ route' = NoRoute /\ cand' = None

\* serialization of an address under either marker
Serialize ==
  /\ IsAddr(addr)
  /\ text' = Text(serialize(addr))
  /\ op' = "serialize"
  /\ prev' = addr
  /\ UNCHANGED addr
  /\ param' = NoParam /\ script' = None /\ res' = None /\ route' = NoRoute /\ cand' = None

\* a.to_qr_uri() of a Checked address, which it consumes
ToQrUri ==
  /\ HasAddr("Checked")
  /\ res' = Ok(to_qr_uri(addr))
  /\ op' = "to_qr_uri"
  /\ prev' = addr
  /\ addr' = None
  /\ param' = NoParam /\ text' = None /\ script' = None /\ route' = NoRoute /\ cand' = None

\* t.to_string() of an AddressType
FormatAddressType ==
  \E t \in AddressTypes :
    /\ text' = Text(AddressType_Display(t))
    /\ res' = Ok(t)
    /\ op' = "AddressType::to_string"
    /\ addr' = None /\ prev' = None
    /\ param' = NoParam /\ script' = None /\ route' = NoRoute /\ cand' = None

\* s.parse::<AddressType>() of an outside string, or of the name just written
ParseAddressType ==
  \E s \in TypeInputs \cup (IF op = "AddressType::to_string" THEN {text.str} ELSE {}) :
    /\ res' = AddressType_from_str(s)
    /\ text' = Text(s)
    /\ op' = "AddressType::from_str"
    /\ param' = IF op = "AddressType::to_string" /\ s = text.str THEN res.val ELSE NoParam
    /\ addr' = None /\ prev' = None
    /\ script' = None /\ route' = NoRoute /\ cand' = None

\* a.network_kind() of an address under either marker
NetworkKindOf ==
  /\ IsAddr(addr)
  /\ res' = Ok(network_kind(addr))
  /\ op' = "network_kind"
  /\ prev' = addr
  /\ UNCHANGED addr
  /\ param' = NoParam /\ text' = None /\ script' = None /\ route' = NoRoute /\ cand' = None

\* format!("{:?}", a) of an address under either marker
DebugFormat ==
  /\ IsAddr(addr)
  /\ res' = Ok(debug(addr))
  /\ op' = "debug"
  /\ prev' = addr
  /\ UNCHANGED addr
  /\ param' = NoParam /\ text' = None /\ script' = None /\ route' = NoRoute /\ cand' = None

\* a.is_related_to_xonly_pubkey(k) of a Checked address
IsRelatedToXonlyPubkey ==
  /\ HasAddr("Checked")
  /\ \E k \in XOnlyKeys :
       /\ res' = Ok(is_related_to_xonly_pubkey(addr, k))
       /\ cand' = Bytes(k)
       /\ op' = "is_related_to_xonly_pubkey"
       /\ prev' = addr
       /\ UNCHANGED addr
       /\ param' = NoParam /\ text' = None /\ script' = None /\ route' = NoRoute

Next ==
  \/ NewP2pkh
  \/ NewP2sh
  \/ NewSegwit
  \/ Format
  \/ FromStr
  \/ FromBech32Str
  \/ FromBase58Str
  \/ Deserialize
  \/ RequireNetwork
  \/ IsValidForNetwork
  \/ AssumeChecked
  \/ AssumeCheckedRef
  \/ IntoUnchecked
  \/ AsUnchecked
  \/ ScriptPubkey
  \/ FromScript
  \/ MatchesScriptPubkey
  \/ AddressTypeOf
  \/ Serialize
  \/ ToQrUri
  \/ FormatAddressType
  \/ ParseAddressType
  \/ NetworkKindOf
  \/ DebugFormat
  \/ IsRelatedToXonlyPubkey

Spec == Init /\ [][Next]_vars

(***************************************************************************)
(* Properties.                                                             *)
(***************************************************************************)
IsCheckedAddr(a) == IsAddr(a) /\ a.marker = "Checked"

IsUncheckedAddr(a) == IsAddr(a) /\ a.marker = "Unchecked"

\* network n maps to the network tag the payload was built with
MapsToTag(n, inner) ==
  IF inner.variant = "Segwit" THEN KnownHrp_from_network(n) = inner.hrp
  ELSE NetworkKind_from(n) = inner.network

TestNetworks == {"TestnetV3", "TestnetV4", "Signet", "Regtest"}

\* the last step parsed (from_str) the default text of the Checked address prev
ParsedOwnText ==
  /\ op = "from_str"
  /\ IsCheckedAddr(prev)
  /\ text.str = DisplayOf[prev.inner]

\* C1: text round trip.  Parsing the default Display text of a Checked
\* address a succeeds with an Unchecked address u, and for every network N
\* that maps to the tag of a, u.require_network(N) succeeds and returns a.
C1_TextRoundTrip ==
  ParsedOwnText =>
    /\ res.ok
    /\ IsUncheckedAddr(res.val)
    /\ \A n \in Networks :
         MapsToTag(n, prev.inner) => require_network(res.val, n) = Ok(prev)

C1_Witness ==
  /\ ParsedOwnText
  /\ res.ok
  /\ prev.inner.variant = "P2sh"
  /\ prev.inner.network = "Test"

\* the last step gave from_script the script of the Checked address prev
\* and a network that maps to its tag
ScriptOfOwn ==
  /\ op = "from_script"
  /\ IsCheckedAddr(prev)
  /\ script.bytes = script_pubkey(prev)
  /\ MapsToTag(param, prev.inner)

\* C2: script round trip.  For a Checked address a and every network N that
\* maps to the tag of a, from_script(a.script_pubkey(), N) is Ok(b), b = a.
C2_ScriptRoundTrip == ScriptOfOwn => res = Ok(prev)

C2_Witness ==
  /\ ScriptOfOwn
  /\ res.ok
  /\ prev.inner.variant = "Segwit"
  /\ prev.inner.hrp = "Regtest"
  /\ param = "Regtest"

ParseOps == {"from_str", "from_bech32_str", "from_base58_str", "deserialize"}

\* the last step handed out a Checked address, as a value or as a view
YieldsChecked ==
  \/ op \in {"require_network", "assume_checked", "into_unchecked"} /\ IsCheckedAddr(addr)
  \/ op \in {"assume_checked_ref", "as_unchecked"} /\ res.ok /\ IsCheckedAddr(res.val)

\* C3: typestate protocol.  Every address produced by parsing or by
\* deserialization is Unchecked, and a step that operates on an Unchecked
\* address hands out a Checked one only if it is a successful
\* require_network, or assume_checked / assume_checked_ref.
C3_TypestateProtocol ==
  [][ /\ (op' \in ParseOps /\ res'.ok) =>
           (IsUncheckedAddr(res'.val) /\ IsUncheckedAddr(addr'))
      /\ (IsUncheckedAddr(prev') /\ YieldsChecked') =>
           \/ op' = "require_network" /\ res'.ok
           \/ op' \in {"assume_checked", "assume_checked_ref"}
    ]_vars

C3_Witness ==
  /\ op = "require_network"
  /\ res.ok
  /\ IsUncheckedAddr(prev)
  /\ IsCheckedAddr(addr)

\* C4: u.require_network(n) succeeds exactly when u.is_valid_for_network(n),
\* and on success returns the payload of u under the Checked marker.
C4_RequireNetworkIffValid ==
  op = "require_network" =>
    /\ res.ok <=> is_valid_for_network(prev, param)
    /\ res.ok => (res.val = Checked(prev.inner) /\ addr = res.val)

C4_Witness ==
  /\ op = "require_network"
  /\ res.ok
  /\ prev.inner.variant = "Segwit"
  /\ prev.inner.hrp = "Testnets"
  /\ param = "Signet"

\* C5: a failing u.require_network(required) gives the network-validation
\* error, which carries required and the Unchecked address u unchanged.
C5_RequireNetworkError ==
  (op = "require_network" /\ ~res.ok) =>
    /\ res.err.kind = "NetworkValidation"
    /\ res.err.required = param
    /\ res.err.address = prev
    /\ IsUncheckedAddr(res.err.address)

C5_Witness ==
  /\ op = "require_network"
  /\ ~res.ok
  /\ prev.inner.variant = "P2pkh"
  /\ param = "Bitcoin"

\* C6: legacy network collapse.  A P2PKH or P2SH address tagged Test is
\* valid for Testnet(V3), Testnet(V4), Signet and Regtest and not for
\* Bitcoin; one tagged Main is valid for Bitcoin and for no other network.
C6_LegacyCollapse ==
  (op = "is_valid_for_network" /\ prev.inner.variant \in {"P2pkh", "P2sh"}) =>
    /\ prev.inner.network = "Test" => (res.val <=> param \in TestNetworks)
    /\ prev.inner.network = "Main" => (res.val <=> param = "Bitcoin")

C6_Witness ==
  /\ op = "is_valid_for_network"
  /\ prev.inner.variant = "P2sh"
  /\ prev.inner.network = "Test"
  /\ param = "Regtest"
  /\ res.val

\* C7: segwit network classes.  A segwit address tagged Testnets is valid
\* for Testnet(V3), Testnet(V4) and Signet and not for Bitcoin or Regtest;
\* tagged Regtest it is valid only for Regtest; tagged Mainnet only for
\* Bitcoin.
C7_SegwitClasses ==
  (op = "is_valid_for_network" /\ prev.inner.variant = "Segwit") =>
    res.val = CASE prev.inner.hrp = "Testnets" ->
                     param \in {"TestnetV3", "TestnetV4", "Signet"}
                [] prev.inner.hrp = "Regtest" -> param = "Regtest"
                [] prev.inner.hrp = "Mainnet" -> param = "Bitcoin"

C7_Witness ==
  /\ op = "is_valid_for_network"
  /\ prev.inner.variant = "Segwit"
  /\ prev.inner.hrp = "Regtest"
  /\ param = "TestnetV4"
  /\ ~res.val

\* is_valid_for_network was asked about a segwit address tagged Testnets
AskedTestnetsSegwit ==
  /\ op = "is_valid_for_network"
  /\ prev.inner.variant = "Segwit"
  /\ prev.inner.hrp = "Testnets"

\* C8 as stated: a segwit address tagged Testnets is valid for Testnet(V3),
\* Testnet(V4), Signet and Regtest.
C8_Original ==
  (AskedTestnetsSegwit /\ param \in {"TestnetV3", "TestnetV4", "Signet", "Regtest"}) =>
    res.val = TRUE

\* C8 (amended): a segwit address tagged Testnets is valid for Testnet(V3),
\* Testnet(V4) and Signet, and is not valid for Regtest, which has its own
\* tag.
C8_TestnetsTag ==
  /\ (AskedTestnetsSegwit /\ param \in {"TestnetV3", "TestnetV4", "Signet"}) =>
       res.val = TRUE
  /\ (AskedTestnetsSegwit /\ param = "Regtest") => res.val = FALSE

C8_Witness == AskedTestnetsSegwit /\ param = "Regtest" /\ res.val = FALSE

\* the prefix classes of the dispatcher, read off the string itself
HasSegwitPrefix(s) ==
  \/ StartsWith(to_lowercase(s), <<"b", "c", "1">>)
  \/ StartsWith(to_lowercase(s), <<"b", "c", "r", "t", "1">>)
  \/ StartsWith(to_lowercase(s), <<"t", "b", "1">>)

HasLegacyPrefix(s) == Len(s) > 0 /\ s[1] \in {"1", "2", "3", "m", "n"}

\* C9: dispatch by prefix, no fallback.  A string whose lower-cased form
\* starts with bc1, bcrt1 or tb1 goes only to the Bech32 decoder: the parse
\* is that decoder's address or a Bech32 error.  Otherwise a string starting
\* with 1, 2, 3, m or n goes only to the Base58 decoder: the parse is that
\* decoder's address or a Base58 error.
C9_PrefixDispatch ==
  op = "from_str" =>
    /\ HasSegwitPrefix(text.str) =>
         /\ route = "bech32"
         /\ res.ok => (ParsedBech32[text.str].ok
                        /\ res.val = ParsedBech32[text.str].val
                        /\ res.val.inner.variant = "Segwit")
         /\ ~res.ok => (~ParsedBech32[text.str].ok
                         /\ res.err = [kind |-> "Bech32",
                                       inner |-> ParsedBech32[text.str].err])
    /\ (~HasSegwitPrefix(text.str) /\ HasLegacyPrefix(text.str)) =>
         /\ route = "base58"
         /\ res.ok => (ParsedBase58[text.str].ok
                        /\ res.val = ParsedBase58[text.str].val
                        /\ res.val.inner.variant \in {"P2pkh", "P2sh"})
         /\ ~res.ok => (~ParsedBase58[text.str].ok
                         /\ res.err = [kind |-> "Base58",
                                       inner |-> ParsedBase58[text.str].err])

\* an upper-case segwit string was parsed by the Bech32 decoder
C9_Witness ==
  /\ op = "from_str"
  /\ text.str = to_uppercase(STR_P2A)
  /\ route = "bech32"
  /\ res.ok

\* the prefix of s before position pos (the whole of s when pos = 0)
Before(s, pos) == IF pos = 0 THEN s ELSE SubSeq(s, 1, pos - 1)

\* the last step parsed a string of neither prefix class
ParsedUnknownPrefix ==
  /\ op = "from_str"
  /\ ~HasSegwitPrefix(text.str)
  /\ ~HasLegacyPrefix(text.str)

\* C10 as stated: the diagnostic HRP is the input before its first '1'.
C10_Original ==
  ParsedUnknownPrefix =>
    res = Err([kind |-> "UnknownHrp", hrp |-> Before(text.str, find(text.str, "1"))])

\* C10 (amended): a string of neither prefix class fails with the
\* unknown-HRP error whose HRP is the input before its last '1', or the
\* whole input when it contains no '1'.
C10_UnknownHrp ==
  ParsedUnknownPrefix =>
    res = Err([kind |-> "UnknownHrp", hrp |-> Before(text.str, rfind(text.str, "1"))])

C10_Witness ==
  /\ ParsedUnknownPrefix
  /\ text.str = <<"x", "1", "y", "1", "z">>
  /\ res.err.hrp = <<"x", "1", "y">>

\* the legacy decoder ran on the text buffer: called directly, or chosen by
\* the prefix dispatch of from_str
LegacyDecoded == op = "from_base58_str" \/ (op = "from_str" /\ route = "base58")

\* the decoder's own error, from_str having wrapped it as ParseError::Base58
LegacyError == IF op = "from_str" THEN res.err.inner ELSE res.err

\* C11: every string longer than 50 characters given to the legacy decoder
\* fails with the address-too-long error carrying the string's length,
\* whatever its characters; a string of exactly 50 characters does not fail
\* with that error.
C11_LengthGuard ==
  LegacyDecoded =>
    /\ Len(text.str) > 50 =>
         /\ ~res.ok
         /\ LegacyError = [kind |-> "LegacyAddressTooLong", length |-> Len(text.str)]
    /\ Len(text.str) = 50 =>
         (res.ok \/ LegacyError.kind # "LegacyAddressTooLong")

\* a 51-character string with characters outside the Base58 alphabet was
\* given to from_base58_str and rejected by the guard
C11_Witness ==
  /\ op = "from_base58_str"
  /\ Len(text.str) = 51
  /\ \E i \in 1..Len(text.str) : IndexOf(BASE58_CHARS, text.str[i]) = 0
  /\ ~res.ok
  /\ res.err.kind = "LegacyAddressTooLong"
  /\ res.err.length = 51

\* C12: when the decoded payload of a legacy string is not 21 bytes long,
\* the invalid-payload-length error carries the length of the decoded
\* payload.
C12_PayloadLength ==
  (LegacyDecoded /\ ~res.ok /\ LegacyError.kind = "InvalidBase58PayloadLength") =>
    LegacyError.length = Len(Base58DecodeCheck(text.str).val)

\* what from_base58_str reports instead: the number of characters of the
\* string it was given, for a payload that is not 21 bytes long
C12_ReportsStringLength ==
  (LegacyDecoded /\ ~res.ok /\ LegacyError.kind = "InvalidBase58PayloadLength") =>
    /\ Base58DecodeCheck(text.str).ok
    /\ Len(Base58DecodeCheck(text.str).val) # 21
    /\ LegacyError.length = Len(text.str)

\* the legacy decoder returned the address of the given payload
LegacyYields(inner) == res.ok /\ res.val = Unchecked(inner)

\* the legacy decoder failed with the given error
LegacyFails(e) == ~res.ok /\ LegacyError = e

\* the result the prefix byte b and the hash h call for
PrefixMaps(b, h) ==
  CASE b = PUBKEY_ADDRESS_PREFIX_MAIN -> LegacyYields(P2pkhInner(h, "Main"))
    [] b = PUBKEY_ADDRESS_PREFIX_TEST -> LegacyYields(P2pkhInner(h, "Test"))
    [] b = SCRIPT_ADDRESS_PREFIX_MAIN -> LegacyYields(P2shInner(h, "Main"))
    [] b = SCRIPT_ADDRESS_PREFIX_TEST -> LegacyYields(P2shInner(h, "Test"))
    [] OTHER -> LegacyFails([kind |-> "InvalidLegacyPrefix", invalid |-> b])

\* the decoded payload dec, when it is 21 bytes long, is mapped by its first
\* byte, the other 20 bytes being the hash
PayloadMaps(dec) ==
  (dec.ok /\ Len(dec.val) = 21) => (Len(Tail(dec.val)) = 20 /\ PrefixMaps(dec.val[1], Tail(dec.val)))

\* C13: a decoded 21-byte payload is mapped by its first byte to exactly one
\* of (P2PKH, Main), (P2PKH, Test), (P2SH, Main), (P2SH, Test), the other 20
\* bytes being the hash; any other first byte fails with the
\* invalid-legacy-prefix error carrying that byte; and the mapping inverts
\* the prefix Display writes: the text of a legacy address decodes to its
\* own variant, hash and network.
C13_PrefixMapping ==
  LegacyDecoded =>
    /\ Len(text.str) <= 50 => PayloadMaps(Base58DecodeCheck(text.str))
    /\ (prev # None /\ prev.inner.variant \in {"P2pkh", "P2sh"}) =>
         LegacyYields(prev.inner)

\* from_base58_str decoded the text of a test-network P2SH address
C13_Witness ==
  /\ op = "from_base58_str"
  /\ prev # None
  /\ prev.inner.variant = "P2sh"
  /\ prev.inner.network = "Test"
  /\ text.str = DisplayOf[prev.inner]
  /\ res.ok
  /\ res.val.inner = prev.inner

\* C14: a.matches_script_pubkey(s) is true exactly when s is the script the
\* address creates, s = a.script_pubkey(), also for segwit addresses that
\* differ only in witness version.
C14_MatchesOwnScript ==
  op = "matches_script_pubkey" =>
    (res.val <=> cand.bytes = script_pubkey(prev))

\* what matches_script_pubkey decides instead for a segwit address: s is a
\* witness program, of any version, whose program bytes are the address's
C14_MatchesUpToVersion ==
  op = "matches_script_pubkey" =>
    (res.val <=>
       \/ cand.bytes = script_pubkey(prev)
       \/ /\ prev.inner.variant = "Segwit"
          /\ \E v \in 0..16 :
               cand.bytes = new_witness_program_unchecked(v, prev.inner.program.program))

\* the three recognized templates, byte by byte:
\* 76 a9 14 <20 bytes> 88 ac
P2pkhTemplate(s) ==
  /\ Len(s) = 25
  /\ SubSeq(s, 1, 3) = <<118, 169, 20>>
  /\ SubSeq(s, 24, 25) = <<136, 172>>

\* a9 14 <20 bytes> 87
P2shTemplate(s) ==
  /\ Len(s) = 23
  /\ SubSeq(s, 1, 2) = <<169, 20>>
  /\ s[23] = 135

\* a version opcode (00, or 51 .. 60) and one push of 2 to 40 bytes
WitnessTemplate(s) ==
  /\ Len(s) \in 4..42
  /\ s[1] \in {0} \cup (81..96)
  /\ s[2] = Len(s) - 2

\* C15: from_script fails with UnrecognizedScript for every script matching
\* none of the three templates; for a P2PKH script it returns the P2PKH
\* address of bytes 3..23, for a P2SH script the P2SH address of bytes 2..22
\* (offsets counted from 0, the end excluded), with the network kind of the
\* network given.
C15_FromScriptTemplates ==
  op = "from_script" =>
    /\ (~P2pkhTemplate(script.bytes) /\ ~P2shTemplate(script.bytes)
          /\ ~WitnessTemplate(script.bytes)) =>
         res = Err([kind |-> "UnrecognizedScript"])
    /\ P2pkhTemplate(script.bytes) =>
         res = Ok(Checked(P2pkhInner(SubSeq(script.bytes, 4, 23),
                                     IF param = "Bitcoin" THEN "Main" ELSE "Test")))
    /\ P2shTemplate(script.bytes) =>
         res = Ok(Checked(P2shInner(SubSeq(script.bytes, 3, 22),
                                    IF param = "Bitcoin" THEN "Main" ELSE "Test")))

\* from_script refused a 25-byte script that starts like a P2PKH script and
\* ends otherwise
C15_Witness ==
  /\ op = "from_script"
  /\ Len(script.bytes) = 25
  /\ SubSeq(script.bytes, 1, 3) = <<118, 169, 20>>
  /\ ~P2pkhTemplate(script.bytes)
  /\ res = Err([kind |-> "UnrecognizedScript"])

\* two payloads that differ at most in their network tag
SamePayload(i, j) ==
  /\ i.variant = j.variant
  /\ i.variant \in {"P2pkh", "P2sh"} => i.hash = j.hash
  /\ i.variant = "Segwit" => i.program = j.program

\* the template bytes of a payload
TemplateBytes(i) ==
  CASE i.variant = "P2pkh" -> <<118, 169, 20>> \o i.hash \o <<136, 172>>
    [] i.variant = "P2sh" -> <<169, 20>> \o i.hash \o <<135>>
    [] i.variant = "Segwit" ->
         <<IF i.program.version = 0 THEN 0 ELSE 80 + i.program.version,
           Len(i.program.program)>> \o i.program.program

\* C16: script_pubkey yields a byte string for every Checked address, and
\* exactly the template: 76 a9 14 hash 88 ac for P2PKH, a9 14 hash 87 for
\* P2SH, the version opcode and a push of the program for segwit; the same
\* payload under any other network tag gives the same script.
C16_ScriptTemplates ==
  op = "script_pubkey" =>
    /\ \A k \in 1..Len(script.bytes) : script.bytes[k] \in 0..255
    /\ script.bytes = TemplateBytes(prev.inner)
    /\ \A i \in Inners :
         SamePayload(i, prev.inner) => script_pubkey(Checked(i)) = script.bytes

\* script_pubkey of a test-network P2SH address
C16_Witness ==
  /\ op = "script_pubkey"
  /\ prev.inner.variant = "P2sh"
  /\ prev.inner.network = "Test"
  /\ Len(script.bytes) = 23
  /\ script.bytes[23] = 135

\* the classification the claim gives for a payload
TypeOfPayload(i) ==
  CASE i.variant = "P2pkh" -> Some("P2pkh")
    [] i.variant = "P2sh" -> Some("P2sh")
    [] i.variant = "Segwit" /\ i.program.version = 0 /\ Len(i.program.program) = 20 ->
         Some("P2wpkh")
    [] i.variant = "Segwit" /\ i.program.version = 0 /\ Len(i.program.program) = 32 ->
         Some("P2wsh")
    [] i.variant = "Segwit" /\ i.program.version = 1 /\ Len(i.program.program) = 32 ->
         Some("P2tr")
    [] i.variant = "Segwit" /\ i.program.version = 1 /\ i.program.program = <<78, 115>> ->
         Some("P2a")
    [] OTHER -> None

\* C17: address_type classifies an address from its payload alone: P2PKH,
\* P2SH, P2WPKH (v0, 20 bytes), P2WSH (v0, 32 bytes), P2TR (v1, 32 bytes),
\* P2A (v1, the anchor program), None for every other witness version or
\* length, whatever the network tag; is_spend_standard is true exactly when
\* address_type is not None.
C17_AddressType ==
  op = "address_type" =>
    /\ res.val.type = TypeOfPayload(prev.inner)
    /\ \A i \in Inners :
         SamePayload(i, prev.inner) => address_type(Checked(i)) = res.val.type
    /\ res.val.standard <=> res.val.type # None

\* address_type of a witness version 1 address whose 20-byte program is
\* neither a Taproot key nor the anchor
C17_Witness ==
  /\ op = "address_type"
  /\ prev.inner.variant = "Segwit"
  /\ prev.inner.program.version = 1
  /\ Len(prev.inner.program.program) = 20
  /\ res.val.type = None
  /\ ~res.val.standard

\* C18 as stated: displaying, serializing, script generation and QR-URI
\* generation all need a Checked address.
C18_Original ==
  op \in {"to_string", "serialize", "script_pubkey", "to_qr_uri"} =>
    IsCheckedAddr(prev)

\* C18: displaying (to_string), script generation and QR-URI generation
\* need a Checked address; serialization is open to either marker and
\* writes the address string of the payload.
C18_CheckedOnlyDisplays ==
  /\ op \in {"to_string", "script_pubkey", "to_qr_uri"} => IsCheckedAddr(prev)
  /\ op = "serialize" =>
       /\ IsCheckedAddr(prev) \/ IsUncheckedAddr(prev)
       /\ text.str = DisplayOf[prev.inner]

\* an Unchecked address was serialized to its address string
C18_Witness ==
  /\ op = "serialize"
  /\ IsUncheckedAddr(prev)
  /\ text.str = DisplayOf[prev.inner]

\* C19: an address serializes as exactly its default text form; deserialize
\* yields Unchecked addresses only; and deserializing the serialized text of
\* an address gives that address viewed as unchecked.
C19_SerdeRoundTrip ==
  /\ op = "serialize" => text.str = Display(prev.inner, FALSE)
  /\ (op = "deserialize" /\ res.ok) => IsUncheckedAddr(res.val)
  /\ (op = "deserialize" /\ prev # None) =>
       /\ res = Ok(as_unchecked(prev))
       /\ addr = as_unchecked(prev)

\* the serialized text of a Checked segwit address was deserialized
C19_Witness ==
  /\ op = "deserialize"
  /\ IsCheckedAddr(prev)
  /\ prev.inner.variant = "Segwit"
  /\ text.str = DisplayOf[prev.inner]
  /\ res = Ok(Unchecked(prev.inner))

\* C20: to_qr_uri is "bitcoin:" followed by the alternate text of the
\* address: the upper-cased default text for a segwit address, the default
\* text unchanged for a legacy address.
C20_QrUri ==
  op = "to_qr_uri" =>
    res.val = <<"b", "i", "t", "c", "o", "i", "n", ":">>
                \o (IF prev.inner.variant = "Segwit"
                    THEN to_uppercase(Display(prev.inner, FALSE))
                    ELSE Display(prev.inner, FALSE))

\* the URI of a segwit address, whose default text has lower-case letters
C20_Witness ==
  /\ op = "to_qr_uri"
  /\ prev.inner.variant = "Segwit"
  /\ \E k \in 1..Len(DisplayOf[prev.inner]) : IsLower(DisplayOf[prev.inner][k])
  /\ res.val = BITCOIN_URI \o to_uppercase(DisplayOf[prev.inner])

\* the methods that take the address by shared reference (&self)
RefOps ==
  {"as_unchecked", "assume_checked_ref", "is_valid_for_network", "to_string",
   "serialize", "script_pubkey", "matches_script_pubkey", "address_type",
   "network_kind", "debug", "is_related_to_xonly_pubkey"}

\* the methods that consume the address (self) and return it re-tagged
RetagOps == {"require_network", "assume_checked", "into_unchecked"}

HrpMaps(h) ==
  CASE h = <<"b", "c">> -> res.ok /\ res.val.inner.hrp = "Mainnet"
    [] h = <<"t", "b">> -> res.ok /\ res.val.inner.hrp = "Testnets"
    [] h = <<"b", "c", "r", "t">> -> res.ok /\ res.val.inner.hrp = "Regtest"
    [] OTHER -> res = Err([kind |-> "UnknownHrp", hrp |-> h])

\* the string decoded as a segwit string (dec): its HRP decides the result
DecodedHrpMaps(dec) == dec.ok => HrpMaps(to_lowercase(dec.val.hrp))

\* C22: a well-formed segwit string whose HRP is not bc, tb or bcrt fails in
\* from_bech32_str with the unknown-HRP error carrying the lower-cased HRP;
\* bc gives Mainnet, tb Testnets, bcrt Regtest, and to_hrp gives back the
\* HRP from_hrp maps to each tag.
C22_KnownHrp ==
  /\ op = "from_bech32_str" => DecodedHrpMaps(SegwitDecode(text.str))
  /\ \A k \in KnownHrps : KnownHrp_from_hrp(KnownHrp_to_hrp(k)) = Ok(k)
  /\ KnownHrp_to_hrp("Mainnet") = <<"b", "c">>
  /\ KnownHrp_to_hrp("Testnets") = <<"t", "b">>
  /\ KnownHrp_to_hrp("Regtest") = <<"b", "c", "r", "t">>

\* an upper-case well-formed string with the HRP BC1X was refused
C22_Witness ==
  /\ op = "from_bech32_str"
  /\ Len(text.str) > 4
  /\ SubSeq(text.str, 1, 4) = <<"B", "C", "1", "X">>
  /\ res = Err([kind |-> "UnknownHrp", hrp |-> <<"b", "c", "1", "x">>])

\* the six type names
TypeName ==
  [P2pkh |-> <<"p", "2", "p", "k", "h">>,
   P2sh |-> <<"p", "2", "s", "h">>,
   P2wpkh |-> <<"p", "2", "w", "p", "k", "h">>,
   P2wsh |-> <<"p", "2", "w", "s", "h">>,
   P2tr |-> <<"p", "2", "t", "r">>,
   P2a |-> <<"p", "2", "a">>]

\* C23: parsing the Display text of an AddressType t returns t; every other
\* string, a type name in another letter case included, fails with
\* UnknownAddressTypeError carrying the string unchanged.
C23_AddressTypeText ==
  /\ op = "AddressType::to_string" => text.str = TypeName[res.val]
  /\ op = "AddressType::from_str" =>
       /\ param # NoParam => res = Ok(param)
       /\ \A t \in DOMAIN TypeName : text.str = TypeName[t] => res = Ok(t)
       /\ (\A t \in DOMAIN TypeName : text.str # TypeName[t]) =>
            res = Err([kind |-> "UnknownAddressType", input |-> text.str])

\* the upper-case name of a type was refused, the error carrying it
C23_Witness ==
  /\ op = "AddressType::from_str"
  /\ text.str = <<"P", "2", "T", "R">>
  /\ res = Err([kind |-> "UnknownAddressType", input |-> <<"P", "2", "T", "R">>])

\* C24: network_kind is the stored kind of a P2PKH or P2SH address, and for
\* a segwit address Main for the Mainnet HRP, Test for the Testnets and the
\* Regtest HRP; a legacy address built for Testnet(V3), Testnet(V4), Signet
\* or Regtest is tagged Test and equals the one built from the same hash
\* for any other of the four.
C24_NetworkKind ==
  /\ op = "network_kind" =>
       res.val = CASE prev.inner.variant \in {"P2pkh", "P2sh"} -> prev.inner.network
                   [] prev.inner.hrp = "Mainnet" -> "Main"
                   [] prev.inner.hrp \in {"Testnets", "Regtest"} -> "Test"
  /\ (op = "p2pkh" /\ param \in TestNetworks) =>
       /\ addr.inner.network = "Test"
       /\ \A n \in TestNetworks : p2pkh(addr.inner.hash, n) = addr
  /\ (op = "p2sh_from_hash" /\ param \in TestNetworks) =>
       /\ addr.inner.network = "Test"
       /\ \A n \in TestNetworks : p2sh_from_hash(addr.inner.hash, n) = addr

\* network_kind of a regtest segwit address
C24_Witness ==
  /\ op = "network_kind"
  /\ prev.inner.variant = "Segwit"
  /\ prev.inner.hrp = "Regtest"
  /\ res.val = "Test"

\* C25: the Debug output of a Checked address is its Display text; that of
\* an Unchecked address is "Address<NetworkUnchecked>(", the address text
\* and ")".
C25_DebugFormat ==
  op = "debug" =>
    /\ IsCheckedAddr(prev) => res.val = Display(prev.inner, FALSE)
    /\ IsUncheckedAddr(prev) =>
         res.val =
           <<"A", "d", "d", "r", "e", "s", "s", "<", "N", "e", "t", "w", "o", "r", "k",
             "U", "n", "c", "h", "e", "c", "k", "e", "d", ">", "(">>
             \o Display(prev.inner, FALSE) \o <<")">>

\* the Debug output of an Unchecked P2SH address
C25_Witness ==
  /\ op = "debug"
  /\ IsUncheckedAddr(prev)
  /\ prev.inner.variant = "P2sh"
  /\ res.val = DEBUG_UNCHECKED \o DisplayOf[prev.inner] \o <<")">>

\* the script is a witness program of version 0 whose length is neither 20
\* nor 32
BadV0Program(s) == WitnessTemplate(s) /\ s[1] = 0 /\ s[2] \notin {20, 32}

\* C26: for a script that matches the witness-program template with a
\* program length invalid for its version (version 0, neither 20 nor 32
\* bytes), from_script returns the witness-program error carrying that
\* length, InvalidSegwitV0Length(17) for 17 bytes, and not
\* UnrecognizedScript; for every other script of the template it returns
\* the segwit address of that version and program.
C26_InvalidProgramLength ==
  (op = "from_script" /\ WitnessTemplate(script.bytes)) =>
    IF BadV0Program(script.bytes)
    THEN res = Err([kind |-> "WitnessProgram", why |-> "InvalidSegwitV0Length",
                    length |-> Len(script.bytes) - 2])
    ELSE /\ res.ok
         /\ res.val.inner.variant = "Segwit"
         /\ res.val.inner.program.program = SubSeq(script.bytes, 3, Len(script.bytes))

\* from_script refused the version 0 script with a 17-byte program
C26_Witness ==
  /\ op = "from_script"
  /\ Len(script.bytes) = 19
  /\ SubSeq(script.bytes, 1, 2) = <<0, 17>>
  /\ res = Err([kind |-> "WitnessProgram", why |-> "InvalidSegwitV0Length",
                length |-> 17])

\* C27: is_related_to_xonly_pubkey(k) is true exactly when the address is a
\* P2TR address (witness version 1, 32-byte program) whose program is the
\* serialization of k, and false for an address of any other type.
C27_TaprootOnly ==
  op = "is_related_to_xonly_pubkey" =>
    (res.val <=>
       /\ prev.inner.variant = "Segwit"
       /\ prev.inner.program.version = 1
       /\ Len(prev.inner.program.program) = 32
       /\ prev.inner.program.program = cand.bytes)

\* what is_related_to_xonly_pubkey decides instead: the payload bytes of the
\* address, whatever its type, are the serialization of k
C27_ComparesPayload ==
  op = "is_related_to_xonly_pubkey" =>
    (res.val <=>
       cand.bytes = (IF prev.inner.variant = "Segwit" THEN prev.inner.program.program
                     ELSE prev.inner.hash))

\* the networks an address is valid for
ValidNetworks(a) == {n \in Networks : is_valid_for_network(a, n)}

\* C28: no address is valid for Bitcoin and for one of Testnet(V3),
\* Testnet(V4), Signet, Regtest as well, and every address is valid for at
\* least one network; so a require_network that succeeded for mainnet fails
\* for every test network on the same address, and the other way round.
C28_MainnetExclusive ==
  /\ op \in {"is_valid_for_network", "require_network"} =>
       /\ ValidNetworks(prev) # {}
       /\ "Bitcoin" \in ValidNetworks(prev) => ValidNetworks(prev) = {"Bitcoin"}
  /\ (op = "is_valid_for_network" /\ res.val) => param \in ValidNetworks(prev)
  /\ (op = "require_network" /\ res.ok) =>
       IF param = "Bitcoin"
       THEN \A n \in TestNetworks : ~require_network(prev, n).ok
       ELSE ~require_network(prev, "Bitcoin").ok

\* require_network succeeded for Bitcoin on a parsed legacy address
C28_Witness ==
  /\ op = "require_network"
  /\ param = "Bitcoin"
  /\ res.ok
  /\ prev.inner.variant = "P2pkh"
  /\ \A n \in TestNetworks : ~is_valid_for_network(prev, n)

\* C29: whenever from_script(script, N) succeeds, the address it returns,
\* taken as unchecked, is valid for N, for legacy and for segwit results.
C29_FromScriptValid ==
  (op = "from_script" /\ res.ok) =>
    /\ IsCheckedAddr(res.val)
    /\ is_valid_for_network(into_unchecked(res.val), param)

\* from_script built a P2PKH address for Signet
C29_Witness ==
  /\ op = "from_script"
  /\ param = "Signet"
  /\ res.ok
  /\ res.val.inner.variant = "P2pkh"
  /\ is_valid_for_network(into_unchecked(res.val), "Signet")

\* the marker transitions
MarkerOps ==
  {"into_unchecked", "as_unchecked", "assume_checked", "assume_checked_ref",
   "require_network"}

\* what is observable of a payload: text form, script_pubkey, address_type
SameObservables(i, j) ==
  /\ DisplayOf[i] = DisplayOf[j]
  /\ script_pubkey(Checked(i)) = script_pubkey(Checked(j))
  /\ address_type(Checked(i)) = address_type(Checked(j))

\* C30: every marker transition (into_unchecked, as_unchecked,
\* assume_checked, assume_checked_ref, a successful require_network) hands
\* out an address with exactly the payload of the address it was applied to,
\* hence the same text form, script_pubkey and address_type, so any finite
\* sequence of them does; a failed require_network returns the address it
\* was applied to inside the error.
C30_PayloadUnchanged ==
  [][ /\ op' \in {"into_unchecked", "assume_checked"} =>
           /\ addr'.inner = addr.inner
           /\ SameObservables(addr'.inner, addr.inner)
      /\ op' \in {"as_unchecked", "assume_checked_ref"} =>
           /\ res'.val.inner = addr.inner
           /\ SameObservables(res'.val.inner, addr.inner)
           /\ addr' = addr
      /\ (op' = "require_network" /\ res'.ok) =>
           /\ res'.val.inner = addr.inner
           /\ addr'.inner = addr.inner
           /\ SameObservables(res'.val.inner, addr.inner)
      /\ (op' = "require_network" /\ ~res'.ok) =>
           res'.err.address = addr
    ]_vars

\* into_unchecked has acted on a regtest segwit address, which kept its
\* payload
C30_Witness ==
  /\ op = "into_unchecked"
  /\ IsUncheckedAddr(addr)
  /\ prev.inner.variant = "Segwit"
  /\ prev.inner.hrp = "Regtest"
  /\ addr.inner = prev.inner

=============================================================================
